---- MODULE Spec2Model ----
(***************************************************************************)
(* Model of the kiro-yam-chess rules engine (ChessEngine.ts) and of the    *)
(* GameController that drives it.                                          *)
(*                                                                         *)
(* A GameState is a record; the board is board[row][col] with row 0 the    *)
(* black back rank.  Arrays of the source are sequences, in the order the  *)
(* source builds them.                                                     *)
(***************************************************************************)
EXTENDS Integers, Sequences, FiniteSets, TLC

VARIABLES gameState,   \* GameController.gameState / the engine state in play
          line,        \* the scripted game being replayed (0: none)
          free,        \* number of moves executed off the script
          inputAfter,  \* the state object handed to the last executeMove, as
                       \* its holder sees it after the call returned
          difficulty,  \* GameController.difficulty
          pending,     \* the moves of generateMove calls whose await in
                       \* requestAIMove has not resumed yet, oldest first
          lastCall,    \* the last controller call: what was submitted and
                       \* what the call did besides writing gameState
          calls,       \* number of controller methods called so far
          search,      \* the generateMove call under way: its two promises,
                       \* its timer and what it resolved with
          snapshots    \* the values the controller's current GameState object
                       \* had when it was handed out (getGameState, subscribers)

vars == <<gameState, line, free, inputAfter, difficulty, pending, lastCall, calls, search,
          snapshots>>

----------------------------------------------------------------------------
(* types/chess.ts                                                          *)

Rows == 0..7
Cols == 0..7

Pos(r, c) == [row |-> r, col |-> c]

\* null / undefined of the source, in the shape of the value it stands for
NoPos == [row |-> -1, col |-> -1]
Null == [type |-> "none", color |-> "none", position |-> NoPos, hasMoved |-> FALSE]

Piece(t, c, r, k, m) == [type |-> t, color |-> c, position |-> Pos(r, k), hasMoved |-> m]

NoMove == [from |-> NoPos, to |-> NoPos, piece |-> Null, capturedPiece |-> Null,
           isEnPassant |-> FALSE, isCastling |-> FALSE, promotionType |-> "none"]

\* a Move with no optional field set
MkMove(from, to, piece) ==
  [from |-> from, to |-> to, piece |-> piece, capturedPiece |-> Null,
   isEnPassant |-> FALSE, isCastling |-> FALSE, promotionType |-> "none"]

positionsEqual(pos1, pos2) == pos1.row = pos2.row /\ pos1.col = pos2.col

Opposite(color) == IF color = "white" THEN "black" ELSE "white"

Abs(n) == IF n < 0 THEN -n ELSE n

\* Array.prototype.some(positionsEqual) over a sequence of positions
Includes(moves, pos) == \E i \in 1..Len(moves) : positionsEqual(moves[i], pos)

\* concatenation of a sequence of sequences, in order
RECURSIVE Flatten(_)
Flatten(ss) == IF ss = <<>> THEN <<>> ELSE Head(ss) \o Flatten(Tail(ss))

----------------------------------------------------------------------------
(* ChessEngine.initializeGame / createInitialBoard                         *)

BackRank == <<"rook", "knight", "bishop", "queen", "king", "bishop", "knight", "rook">>

createInitialBoard ==
  [r \in Rows |-> [c \in Cols |->
     CASE r = 0 -> Piece(BackRank[c + 1], "black", r, c, FALSE)
       [] r = 1 -> Piece("pawn", "black", r, c, FALSE)
       [] r = 6 -> Piece("pawn", "white", r, c, FALSE)
       [] r = 7 -> Piece(BackRank[c + 1], "white", r, c, FALSE)
       [] OTHER -> Null]]

\* the controller's optional fields (isAIThinking, status, winner) are part of
\* the GameState object; undefined is "none", and the booleans of isAIThinking
\* are "true" and "false"
initializeGame ==
  [board |-> createInitialBoard,
   currentTurn |-> "white",
   moveHistory |-> <<>>,
   capturedPieces |-> <<>>,
   isCheck |-> FALSE,
   isCheckmate |-> FALSE,
   isStalemate |-> FALSE,
   moveCount |-> 0,
   lastMove |-> NoMove,
   isAIThinking |-> "none",
   status |-> "none",
   winner |-> "none"]

----------------------------------------------------------------------------
(* Move generation                                                         *)

isPositionOnBoard(pos) == pos.row >= 0 /\ pos.row <= 7 /\ pos.col >= 0 /\ pos.col <= 7

\* state.board[row]?.[col]: undefined off the board
At(state, pos) == IF isPositionOnBoard(pos) THEN state.board[pos.row][pos.col] ELSE Null

getEnPassantMovesAnyTime(pawn, state) ==
  LET correctRank == IF pawn.color = "white" THEN 3 ELSE 4
      direction == IF pawn.color = "white" THEN -1 ELSE 1
      beside(col) ==
        IF /\ col \in Cols
           /\ state.board[pawn.position.row][col] # Null
           /\ state.board[pawn.position.row][col].type = "pawn"
           /\ state.board[pawn.position.row][col].color # pawn.color
        THEN << Pos(pawn.position.row + direction, col) >> ELSE <<>>
  IN IF pawn.position.row # correctRank THEN <<>>
     ELSE beside(pawn.position.col - 1) \o beside(pawn.position.col + 1)

getEnPassantMoves(pawn, state) ==
  LET correctRank == IF pawn.color = "white" THEN 3 ELSE 4
      lastMove == state.lastMove
      direction == IF pawn.color = "white" THEN -1 ELSE 1
  IN IF pawn.position.row # correctRank THEN <<>>
     ELSE IF lastMove = NoMove THEN <<>>
     ELSE IF lastMove.piece.type # "pawn" \/ lastMove.piece.color = pawn.color THEN <<>>
     ELSE IF Abs(lastMove.to.row - lastMove.from.row) # 2 THEN <<>>
     ELSE IF Abs(lastMove.to.col - pawn.position.col) = 1
             /\ lastMove.to.row = pawn.position.row
          THEN << Pos(pawn.position.row + direction, lastMove.to.col) >>
          ELSE <<>>

getPawnMoves(piece, state) ==
  LET row == piece.position.row
      col == piece.position.col
      direction == IF piece.color = "white" THEN -1 ELSE 1
      forwardOne == Pos(row + direction, col)
      forwardTwo == Pos(row + direction * 2, col)
      forward ==
        IF isPositionOnBoard(forwardOne) /\ At(state, forwardOne) = Null
        THEN <<forwardOne>> \o
             (IF ~piece.hasMoved /\ isPositionOnBoard(forwardTwo) /\ At(state, forwardTwo) = Null
              THEN <<forwardTwo>> ELSE <<>>)
        ELSE <<>>
      capture(capturePos) ==
        IF isPositionOnBoard(capturePos)
           /\ At(state, capturePos) # Null
           /\ At(state, capturePos).color # piece.color
        THEN <<capturePos>> ELSE <<>>
  IN forward \o capture(Pos(row + direction, col - 1))
             \o capture(Pos(row + direction, col + 1))
             \o getEnPassantMoves(piece, state)

\* the shared body of getKnightMoves / getKingMoves / getBasicKingMoves: the
\* offsets that land on the board on an empty or opposing square
OffsetMoves(piece, offsets, state) ==
  LET step(o) ==
        LET newPos == Pos(piece.position.row + o[1], piece.position.col + o[2])
        IN IF isPositionOnBoard(newPos)
              /\ (At(state, newPos) = Null \/ At(state, newPos).color # piece.color)
           THEN <<newPos>> ELSE <<>>
  IN Flatten([i \in 1..Len(offsets) |-> step(offsets[i])])

KnightOffsets == << <<-2, -1>>, <<-2, 1>>, <<-1, -2>>, <<-1, 2>>,
                    <<1, -2>>, <<1, 2>>, <<2, -1>>, <<2, 1>> >>

getKnightMovesNone(piece, state) == <<>>

getKnightMoves(piece, state) == OffsetMoves(piece, KnightOffsets, state)

RECURSIVE SlideFrom(_, _, _, _, _)
SlideFrom(piece, currentRow, currentCol, direction, state) ==
  IF ~isPositionOnBoard(Pos(currentRow, currentCol)) THEN <<>>
  ELSE LET targetPiece == state.board[currentRow][currentCol]
       IN IF targetPiece = Null
          THEN <<Pos(currentRow, currentCol)>> \o
               SlideFrom(piece, currentRow + direction[1], currentCol + direction[2],
                         direction, state)
          ELSE IF targetPiece.color # piece.color
               THEN <<Pos(currentRow, currentCol)>>
               ELSE <<>>

getSlidingMovesOneStep(piece, direction, state) ==
  LET next == Pos(piece.position.row + direction[1], piece.position.col + direction[2])
  IN IF isPositionOnBoard(next) THEN <<next>> ELSE <<>>

getSlidingMoves(piece, direction, state) ==
  SlideFrom(piece, piece.position.row + direction[1], piece.position.col + direction[2],
            direction, state)

BishopDirections == << <<-1, -1>>, <<-1, 1>>, <<1, -1>>, <<1, 1>> >>
RookDirections == << <<-1, 0>>, <<1, 0>>, <<0, -1>>, <<0, 1>> >>
QueenDirections == << <<-1, -1>>, <<-1, 0>>, <<-1, 1>>, <<0, -1>>,
                      <<0, 1>>, <<1, -1>>, <<1, 0>>, <<1, 1>> >>
KingOffsets == QueenDirections

SlideAll(piece, directions, state) ==
  Flatten([i \in 1..Len(directions) |-> getSlidingMoves(piece, directions[i], state)])

getBishopMoves(piece, state) == SlideAll(piece, BishopDirections, state)
getRookMoves(piece, state) == SlideAll(piece, RookDirections, state)
getQueenMoves(piece, state) == SlideAll(piece, QueenDirections, state)

getBasicKingMoves(piece, state) == OffsetMoves(piece, KingOffsets, state)

getPseudoLegalMovesForAttack(piece, state) ==
  CASE piece.type = "pawn" -> getPawnMoves(piece, state)
    [] piece.type = "knight" -> getKnightMoves(piece, state)
    [] piece.type = "bishop" -> getBishopMoves(piece, state)
    [] piece.type = "rook" -> getRookMoves(piece, state)
    [] piece.type = "queen" -> getQueenMoves(piece, state)
    [] piece.type = "king" -> getBasicKingMoves(piece, state)
    [] OTHER -> <<>>

\* byColor is the colour being attacked
isPositionUnderAttack(position, byColor, state) ==
  LET opponentColor == Opposite(byColor)
  IN \E row \in Rows, col \in Cols :
       LET piece == state.board[row][col]
       IN /\ piece # Null
          /\ piece.color = opponentColor
          /\ Includes(getPseudoLegalMovesForAttack(piece, state), position)

getCastlingMoves(king, state) ==
  LET backRank == IF king.color = "white" THEN 7 ELSE 0
      kingsideRook == state.board[backRank][7]
      queensideRook == state.board[backRank][0]
      kingside ==
        IF /\ kingsideRook # Null
           /\ kingsideRook.type = "rook"
           /\ kingsideRook.color = king.color
           /\ ~kingsideRook.hasMoved
           /\ state.board[backRank][5] = Null
           /\ state.board[backRank][6] = Null
           /\ ~isPositionUnderAttack(Pos(backRank, 5), king.color, state)
        THEN << Pos(backRank, 6) >> ELSE <<>>
      queenside ==
        IF /\ queensideRook # Null
           /\ queensideRook.type = "rook"
           /\ queensideRook.color = king.color
           /\ ~queensideRook.hasMoved
           /\ state.board[backRank][1] = Null
           /\ state.board[backRank][2] = Null
           /\ state.board[backRank][3] = Null
           /\ ~isPositionUnderAttack(Pos(backRank, 3), king.color, state)
        THEN << Pos(backRank, 2) >> ELSE <<>>
  IN IF king.hasMoved THEN <<>>
     ELSE IF isPositionUnderAttack(king.position, king.color, state) THEN <<>>
     ELSE IF king.position.row # backRank \/ king.position.col # 4 THEN <<>>
     ELSE kingside \o queenside

getKingMovesNoCastling(piece, state) == OffsetMoves(piece, KingOffsets, state)

getKingMoves(piece, state) ==
  OffsetMoves(piece, KingOffsets, state) \o getCastlingMoves(piece, state)

getPseudoLegalMoves(piece, state) ==
  CASE piece.type = "pawn" -> getPawnMoves(piece, state)
    [] piece.type = "knight" -> getKnightMoves(piece, state)
    [] piece.type = "bishop" -> getBishopMoves(piece, state)
    [] piece.type = "rook" -> getRookMoves(piece, state)
    [] piece.type = "queen" -> getQueenMoves(piece, state)
    [] piece.type = "king" -> getKingMoves(piece, state)
    [] OTHER -> <<>>

\* the scratch copy gets the moved piece's position rewritten; when there is
\* no piece at from the input state itself is returned
applyMoveToState(from, to, state) ==
  LET piece == At(state, from)
  IN IF piece = Null THEN state
     ELSE [state EXCEPT !.board =
             [[state.board EXCEPT ![from.row][from.col] = Null]
                EXCEPT ![to.row][to.col] = [piece EXCEPT !.position = to]]]

\* first king of that colour in row-major order, NoPos when there is none
findKing(color, state) ==
  LET found == {rc \in Rows \X Cols :
                  /\ state.board[rc[1]][rc[2]] # Null
                  /\ state.board[rc[1]][rc[2]].type = "king"
                  /\ state.board[rc[1]][rc[2]].color = color}
  IN IF found = {} THEN NoPos
     ELSE LET first == CHOOSE rc \in found :
                         \A o \in found : rc[1] * 8 + rc[2] <= o[1] * 8 + o[2]
          IN Pos(first[1], first[2])

wouldLeaveKingInCheck(from, to, state) ==
  LET tempState == applyMoveToState(from, to, state)
      kingPos == findKing(state.currentTurn, tempState)
  IN IF kingPos = NoPos THEN TRUE
     ELSE isPositionUnderAttack(kingPos, state.currentTurn, tempState)

getValidMoves(position, state) ==
  LET piece == At(state, position)
  IN IF piece = Null THEN <<>>
     ELSE IF piece.color # state.currentTurn THEN <<>>
     ELSE SelectSeq(getPseudoLegalMoves(piece, state),
                    LAMBDA toPos : ~wouldLeaveKingInCheck(position, toPos, state))

isPawnPromotion(from, to, state) ==
  LET piece == At(state, from)
  IN IF piece = Null \/ piece.type # "pawn" THEN FALSE
     ELSE to.row = (IF piece.color = "white" THEN 0 ELSE 7)

isInCheckWithoutKing(color, state) ==
  LET kingPos == findKing(color, state)
  IN IF kingPos = NoPos THEN TRUE
     ELSE isPositionUnderAttack(kingPos, color, state)

isInCheck(color, state) ==
  LET kingPos == findKing(color, state)
  IN IF kingPos = NoPos THEN FALSE
     ELSE isPositionUnderAttack(kingPos, color, state)

hasAnyLegalMoves(color, state) ==
  \E row \in Rows, col \in Cols :
    /\ state.board[row][col] # Null
    /\ state.board[row][col].color = color
    /\ Len(getValidMoves(Pos(row, col), state)) > 0

isCheckmate(color, state) ==
  IF ~isInCheck(color, state) THEN FALSE
  ELSE ~hasAnyLegalMoves(color, state)

isStalemateUnchecked(state) == ~hasAnyLegalMoves(state.currentTurn, state)

isStalemate(state) ==
  IF isInCheck(state.currentTurn, state) THEN FALSE
  ELSE ~hasAnyLegalMoves(state.currentTurn, state)

\* row-major over the board, each piece's destinations in generation order;
\* the Move objects carry from, to and piece only
getAllLegalMoves(color, state) ==
  LET cell(i) ==
        LET row == (i - 1) \div 8
            col == (i - 1) % 8
            piece == state.board[row][col]
        IN IF piece # Null /\ piece.color = color
           THEN LET validMoves == getValidMoves(Pos(row, col), state)
                IN [j \in 1..Len(validMoves) |-> MkMove(Pos(row, col), validMoves[j], piece)]
           ELSE <<>>
  IN Flatten([i \in 1..64 |-> cell(i)])

----------------------------------------------------------------------------
(* Move execution and validation                                           *)

SetCellNeverClears(board, pos, value) ==
  IF value = Null THEN board ELSE [board EXCEPT ![pos.row][pos.col] = value]

\* a write newBoard[row][col] = value
SetCell(board, pos, value) == [board EXCEPT ![pos.row][pos.col] = value]

castleRookKeepsPosition(newBoard, move, piece) ==
  LET backRank == IF piece.color = "white" THEN 7 ELSE 0
      rookCol == IF move.to.col = 6 THEN 7 ELSE 0
      rookTo == IF move.to.col = 6 THEN 5 ELSE 3
  IN IF newBoard[backRank][rookCol] = Null THEN newBoard
     ELSE SetCell(SetCell(newBoard, Pos(backRank, rookTo), newBoard[backRank][rookCol]),
                  Pos(backRank, rookCol), Null)

\* the rook relocation of a castling move on newBoard: from the corner of the
\* back rank to column 5 (to.col = 6) or column 3 (any other to.col)
castleRook(newBoard, move, piece) ==
  LET backRank == IF piece.color = "white" THEN 7 ELSE 0
      isKingside == move.to.col = 6
      rookCol == IF isKingside THEN 7 ELSE 0
      rookTo == IF isKingside THEN 5 ELSE 3
      rook == newBoard[backRank][rookCol]
  IN IF rook = Null THEN newBoard
     ELSE SetCell(SetCell(newBoard, Pos(backRank, rookTo),
                          [rook EXCEPT !.position = Pos(backRank, rookTo), !.hasMoved = TRUE]),
                  Pos(backRank, rookCol), Null)

\* executeMove throws when there is no piece at move.from
executeMoveThrows(move, state) == At(state, move.from) = Null

nextTurnKept(state) == state.currentTurn

\* const newTurn = state.currentTurn === 'white' ? 'black' : 'white'
nextTurn(state) == IF state.currentTurn = "white" THEN "black" ELSE "white"

nextMoveCountKept(state) == state.moveCount

\* moveCount: state.moveCount + 1
nextMoveCount(state) == state.moveCount + 1

\* the three status flags of the new state, each computed for its side to move
statusFlags(newState) ==
  [newState EXCEPT !.isCheck = isInCheck(newState.currentTurn, newState),
                   !.isCheckmate = isCheckmate(newState.currentTurn, newState),
                   !.isStalemate = isStalemate(newState)]

executeMove(move, state) ==
  LET piece == At(state, move.from)
      targetPiece == At(state, move.to)
      capturedPawnPos == Pos(move.from.row, move.to.col)
      capturedPiece ==
        IF move.isEnPassant THEN At(state, capturedPawnPos)
        ELSE targetPiece
      board1 ==
        IF move.isEnPassant /\ capturedPiece # Null
        THEN SetCell(state.board, capturedPawnPos, Null)
        ELSE state.board
      moved == [piece EXCEPT !.position = move.to, !.hasMoved = TRUE]
      board2 == SetCell(SetCell(board1, move.to, moved), move.from, Null)
      board3 == IF move.isCastling THEN castleRook(board2, move, piece) ELSE board2
      \* piece.type = promotionType is a write to the moved object, wherever
      \* the board holds it now
      newBoard ==
        IF move.promotionType # "none" /\ board3[move.to.row][move.to.col] = moved
        THEN SetCell(board3, move.to, [moved EXCEPT !.type = move.promotionType])
        ELSE board3
      newTurn == nextTurn(state)
      executedMove == [move EXCEPT !.capturedPiece = capturedPiece]
      newState ==
        [board |-> newBoard,
         currentTurn |-> newTurn,
         moveHistory |-> Append(state.moveHistory, executedMove),
         capturedPieces |-> IF capturedPiece # Null
                            THEN Append(state.capturedPieces, capturedPiece)
                            ELSE state.capturedPieces,
         isCheck |-> FALSE,
         isCheckmate |-> FALSE,
         isStalemate |-> FALSE,
         moveCount |-> nextMoveCount(state),
         lastMove |-> executedMove,
         isAIThinking |-> "none",
         status |-> "none",
         winner |-> "none"]
  IN statusFlags(newState)

isDestinationValidPseudo(move, state) ==
  Includes(getPseudoLegalMoves(At(state, move.from), state), move.to)

isDestinationValid(move, state) ==
  Includes(getValidMoves(move.from, state), move.to)

isValidMove(move, state) ==
  LET piece == At(state, move.from)
  IN IF piece = Null THEN FALSE
     ELSE IF piece.color # state.currentTurn THEN FALSE
     ELSE IF piece.type # move.piece.type \/ piece.color # move.piece.color THEN FALSE
     ELSE IF ~isDestinationValid(move, state) THEN FALSE
     ELSE IF move.isCastling
             /\ ~(piece.type = "king" /\ Abs(move.to.col - move.from.col) = 2) THEN FALSE
     ELSE IF move.isEnPassant
             /\ ~(/\ piece.type = "pawn"
                  /\ move.to.col # move.from.col
                  /\ At(state, move.to) = Null) THEN FALSE
     ELSE IF move.promotionType # "none"
             /\ ~isPawnPromotion(move.from, move.to, state) THEN FALSE
     ELSE TRUE

----------------------------------------------------------------------------
(* What executeMove leaves of its input                                    *)

executeMoveSharesPieces == {"pieces"}

\* the objects of the input state that the new state shares with it and
\* executeMove writes to: state.board.map(row => row.map(piece => piece ?
\* {...piece, ...} : null)) builds new rows and new pieces, and
\* [...state.capturedPieces], [...state.moveHistory, executedMove] build new
\* arrays, so none
executeMoveShares == {}

\* the input state as its holder sees it once executeMove has returned: the
\* cell writes reach it through shared rows, the writes to the moved piece and
\* to the castling rook (position, hasMoved, type) through shared pieces, the
\* push through a shared capturedPieces or moveHistory array
executeMoveInput(move, state) ==
  LET piece == At(state, move.from)
      result == executeMove(move, state)
      written == [piece EXCEPT !.position = move.to, !.hasMoved = TRUE,
                               !.type = IF move.promotionType # "none"
                                        THEN move.promotionType ELSE @]
      backRank == IF piece.color = "white" THEN 7 ELSE 0
      rookCol == IF move.to.col = 6 THEN 7 ELSE 0
      rookTo == IF move.to.col = 6 THEN 5 ELSE 3
      rook == state.board[backRank][rookCol]
      board1 == SetCell(state.board, move.from, written)
      board2 == IF move.isCastling /\ rook # Null /\ Pos(backRank, rookCol) # move.from
                THEN SetCell(board1, Pos(backRank, rookCol),
                             [rook EXCEPT !.position = Pos(backRank, rookTo),
                                          !.hasMoved = TRUE])
                ELSE board1
  IN [state EXCEPT
        !.board = IF "rows" \in executeMoveShares THEN result.board
                  ELSE IF "pieces" \in executeMoveShares THEN board2
                  ELSE @,
        !.capturedPieces = IF "capturedPieces" \in executeMoveShares
                           THEN result.capturedPieces ELSE @,
        !.moveHistory = IF "moveHistory" \in executeMoveShares
                        THEN result.moveHistory ELSE @]

----------------------------------------------------------------------------
(* Games: scripted lines replayed through isValidMove / executeMove, and   *)
(* moves chosen freely among the inputs a player can submit                *)

\* number of moves a game may make off its scripted line
MaxFree == 1

\* a scripted move: <<from row, from col, to row, to col, flag>>
FoolsMate ==
  << <<6,5,5,5,"">>, <<1,4,3,4,"">>, <<6,6,4,6,"">>, <<0,3,4,7,"">> >>

\* 1.f4 c6 2.f5 Qa5 3.Kf2 a6 4.Kg3 b6 5.Kh4 Kd8 6.Kh5 g5 7.fxg6 e.p. Qxh5
EnPassantPin ==
  << <<6,5,4,5,"">>, <<1,2,2,2,"">>, <<4,5,3,5,"">>, <<0,3,3,0,"">>,
     <<7,4,6,5,"">>, <<1,0,2,0,"">>, <<6,5,5,6,"">>, <<1,1,2,1,"">>,
     <<5,6,4,7,"">>, <<0,4,0,3,"">>, <<4,7,3,7,"">>, <<1,6,3,6,"">>,
     <<3,5,2,6,"ep">>, <<3,0,3,7,"">> >>

\* 1.e4 d5 2.Nf3 Nc6 3.Bc4 Bg4 4.O-O Qd7 5.d3 O-O-O
CastleBoth ==
  << <<6,4,4,4,"">>, <<1,3,3,3,"">>, <<7,6,5,5,"">>, <<0,1,2,2,"">>,
     <<7,5,4,2,"">>, <<0,2,4,6,"">>, <<7,4,7,6,"castle">>, <<0,3,1,3,"">>,
     <<6,3,5,3,"">>, <<0,4,0,2,"castle">> >>

\* 1.h4 g5 2.hxg5 h6 3.gxh6 a6 4.h7 a5 5.hxg8=Q
Promote ==
  << <<6,7,4,7,"">>, <<1,6,3,6,"">>, <<4,7,3,6,"">>, <<1,7,2,7,"">>,
     <<3,6,2,7,"">>, <<1,0,2,0,"">>, <<2,7,1,7,"">>, <<2,0,3,0,"">>,
     <<1,7,0,6,"queen">> >>

\* 1.e3 a5 2.Qh5 Ra6 3.Qxa5 h5 4.h4 Rah6 5.Qxc7 f6 6.Qxd7+ Kf7 7.Qxb7 Qd3
\* 8.Qxb8 Qh7 9.Qxc8 Kg6 10.Qe6 stalemate
QuickStalemate ==
  << <<6,4,5,4,"">>, <<1,0,3,0,"">>, <<7,3,3,7,"">>, <<0,0,2,0,"">>,
     <<3,7,3,0,"">>, <<1,7,3,7,"">>, <<6,7,4,7,"">>, <<2,0,2,7,"">>,
     <<3,0,1,2,"">>, <<1,5,2,5,"">>, <<1,2,1,3,"">>, <<0,4,1,5,"">>,
     <<1,3,1,1,"">>, <<0,3,5,3,"">>, <<1,1,0,1,"">>, <<5,3,1,7,"">>,
     <<0,1,0,2,"">>, <<1,5,2,6,"">>, <<0,2,2,4,"">> >>

\* 1.a3 f5 2.a4 f4 3.a5 Kf7 4.h3 Kf6 5.h4 Kf5 6.e4+
EnPassantCheck ==
  << <<6,0,5,0,"">>, <<1,5,3,5,"">>, <<5,0,4,0,"">>, <<3,5,4,5,"">>,
     <<4,0,3,0,"">>, <<0,4,1,5,"">>, <<6,7,5,7,"">>, <<1,5,2,5,"">>,
     <<5,7,4,7,"">>, <<2,5,3,5,"">>, <<6,4,4,4,"">> >>

\* 1.e4 a6 2.e5 d5 3.a3 a5
EnPassantDeclined ==
  << <<6,4,4,4,"">>, <<1,0,2,0,"">>, <<4,4,3,4,"">>, <<1,3,3,3,"">>,
     <<6,0,5,0,"">>, <<2,0,3,0,"">> >>

Scripts ==
  <<FoolsMate, EnPassantPin, CastleBoth, Promote, QuickStalemate, EnPassantCheck,
    EnPassantDeclined>>

PromotionTypes == {"queen", "rook", "bishop", "knight"}

\* the Move a scripted entry stands for: the mover is the piece on the board
ScriptMove(s, state) ==
  [MkMove(Pos(s[1], s[2]), Pos(s[3], s[4]), At(state, Pos(s[1], s[2])))
     EXCEPT !.isEnPassant = (s[5] = "ep"),
            !.isCastling = (s[5] = "castle"),
            !.promotionType = IF s[5] \in PromotionTypes THEN s[5] ELSE "none"]

\* the moves a player submits for the piece on from: a destination the board
\* offers for it, and the special-move flags the move's shape admits
PlayerMoves(from, state) ==
  LET piece == At(state, from)
      dests == getValidMoves(from, state)
  IN { [MkMove(from, dests[i], piece)
          EXCEPT !.isEnPassant = f[1], !.isCastling = f[2], !.promotionType = f[3]] :
         i \in 1..Len(dests),
         f \in BOOLEAN \X BOOLEAN \X (PromotionTypes \cup {"none"}) }

FlagsFit(m) ==
  /\ m.isEnPassant => (m.piece.type = "pawn" /\ m.to.col # m.from.col)
  /\ m.isCastling => m.piece.type = "king"
  /\ m.promotionType # "none" => (m.piece.type = "pawn" /\ m.to.row \in {0, 7})

\* a controller call: the method, the move submitted (handlePlayerMove), the
\* number of notifyStateChange rounds it made, whether it called
\* requestAIMove, whether it threw
Call(op, move, notified, aiRequested, threw) ==
  [op |-> op, move |-> move, notified |-> notified, aiRequested |-> aiRequested,
   threw |-> threw]

NoCall == Call("none", NoMove, 0, FALSE, FALSE)

\* a generateMove call: the time the search took and the time the timer is
\* set to, the values minimaxPromise and timeoutPromise are resolved with
\* (NoMove: pending), and the value and the source of the promise returned
Search(took, maxThinkingTime, minimaxPromise, timeoutPromise, resolved, by) ==
  [took |-> took, maxThinkingTime |-> maxThinkingTime,
   minimaxPromise |-> minimaxPromise, timeoutPromise |-> timeoutPromise,
   resolved |-> resolved, by |-> by]

NoSearch == Search(0, 0, NoMove, NoMove, NoMove, "none")

Init ==
  /\ gameState = initializeGame
  /\ line = 0
  /\ free = 0
  /\ inputAfter = initializeGame
  /\ difficulty = "easy"
  /\ pending = <<>>
  /\ lastCall = NoCall
  /\ calls = 0
  /\ search = NoSearch
  /\ snapshots = {}

\* the engine's use: a move goes to executeMove once isValidMove accepted it
Execute(move) ==
  /\ isValidMove(move, gameState)
  /\ gameState' = executeMove(move, gameState)
  /\ inputAfter' = executeMoveInput(move, gameState)

Replay(l) ==
  /\ free = 0
  /\ line \in {0, l}
  /\ gameState.moveCount < Len(Scripts[l])
  /\ Execute(ScriptMove(Scripts[l][gameState.moveCount + 1], gameState))
  /\ line' = l
  /\ UNCHANGED <<free, difficulty, pending, lastCall, calls, search, snapshots>>

Play ==
  /\ free < MaxFree
  /\ \E row \in Rows, col \in Cols :
       /\ At(gameState, Pos(row, col)) # Null
       /\ At(gameState, Pos(row, col)).color = gameState.currentTurn
       /\ \E move \in PlayerMoves(Pos(row, col), gameState) :
            /\ FlagsFit(move)
            /\ Execute(move)
  /\ free' = free + 1
  /\ UNCHANGED <<line, difficulty, pending, lastCall, calls, search, snapshots>>

Next == (\E l \in 1..Len(Scripts) : Replay(l)) \/ Play

Spec == Init /\ [][Next]_vars

----------------------------------------------------------------------------

(* AIOpponent and GameController                                           *)

wouldResultInCheckmate(move, state) ==
  isCheckmate(Opposite(move.piece.color), executeMove(move, state))

withoutCheckmateKept(all, nonCheckmate) == all

\* candidateMoves of generateMove: without the moves that give checkmate,
\* unless no other is left
withoutCheckmate(all, nonCheckmate) == IF nonCheckmate # {} THEN nonCheckmate ELSE all

\* candidateMoves of generateMove for the legal moves of black: in easy mode
\* and, before move 10, in hard mode those of withoutCheckmate
candidateMoves(all, state, config) ==
  IF config = "easy" \/ state.moveCount < 10
  THEN withoutCheckmate(all, {m \in all : ~wouldResultInCheckmate(m, state)})
  ELSE all

\* if (legalMoves.length === 0) throw new Error('No legal moves available')
generateMoveThrows(state) == getAllLegalMoves("black", state) = <<>>

elements(moves) == {moves[i] : i \in 1..Len(moves)}

\* the moves generateMove may return, the scores of the search left open: any
\* of the candidate moves. NoMove: generateMove throws.
generateMoveAny(state, config) ==
  IF generateMoveThrows(state) THEN {NoMove}
  ELSE candidateMoves(elements(getAllLegalMoves("black", state)), state, config)

\* the scores of the search in tenths: evaluatePosition adds multiples of 0.1
Infinity == 10000000
CheckmateScore == 100000

Max(a, b) == IF a >= b THEN a ELSE b
Min(a, b) == IF a <= b THEN a ELSE b

pieceValues(type) ==
  CASE type = "pawn" -> 10 [] type = "knight" -> 30 [] type = "bishop" -> 30
    [] type = "rook" -> 50 [] type = "queen" -> 90 [] type = "king" -> 0

centerBonus(row, col) ==
  LET ring(i) == Min(i, 7 - i)
  IN Min(ring(row), ring(col))

developmentBonus(piece) ==
  IF piece.hasMoved /\ piece.type # "pawn" /\ piece.type # "king" THEN 1 ELSE 0

RECURSIVE evaluateCells(_, _)
evaluateCells(board, i) ==
  IF i = 64 THEN 0
  ELSE LET piece == board[i \div 8][i % 8]
           totalValue == pieceValues(piece.type) + centerBonus(i \div 8, i % 8)
                           + developmentBonus(piece)
       IN (IF piece = Null THEN 0
           ELSE IF piece.color = "black" THEN totalValue ELSE -totalValue)
          + evaluateCells(board, i + 1)

evaluatePosition(state) == evaluateCells(state.board, 0)

RECURSIVE minimax(_, _, _, _, _)
RECURSIVE maximize(_, _, _, _, _, _)
RECURSIVE minimize(_, _, _, _, _, _)

\* the loop of the maximizing player over the legal moves left
maximize(legalMoves, state, depth, alpha, beta, maxEval) ==
  IF legalMoves = <<>> THEN maxEval
  ELSE LET evaluation == minimax(executeMove(Head(legalMoves), state), depth - 1,
                                 alpha, beta, FALSE)
       IN IF beta <= Max(alpha, evaluation) THEN Max(maxEval, evaluation)
          ELSE maximize(Tail(legalMoves), state, depth, Max(alpha, evaluation), beta,
                        Max(maxEval, evaluation))

minimizeFirst(legalMoves, state, depth, alpha, beta, minEval) ==
  Min(minEval, minimax(executeMove(Head(legalMoves), state), depth - 1, alpha, beta, TRUE))

\* the loop of the minimizing player over the legal moves left
minimize(legalMoves, state, depth, alpha, beta, minEval) ==
  IF legalMoves = <<>> THEN minEval
  ELSE LET evaluation == minimax(executeMove(Head(legalMoves), state), depth - 1,
                                 alpha, beta, TRUE)
       IN IF Min(beta, evaluation) <= alpha THEN Min(minEval, evaluation)
          ELSE minimize(Tail(legalMoves), state, depth, alpha, Min(beta, evaluation),
                        Min(minEval, evaluation))

minimax(state, depth, alpha, beta, maximizingPlayer) ==
  IF depth = 0 \/ state.isCheckmate \/ state.isStalemate
  THEN IF state.isCheckmate
       THEN (IF maximizingPlayer THEN -CheckmateScore ELSE CheckmateScore)
       ELSE IF state.isStalemate THEN 0 ELSE evaluatePosition(state)
  ELSE LET color == IF maximizingPlayer THEN "black" ELSE "white"
           legalMoves == getAllLegalMoves(color, state)
       IN IF legalMoves = <<>>
          THEN IF isInCheck(color, state)
               THEN (IF maximizingPlayer THEN -CheckmateScore ELSE CheckmateScore)
               ELSE 0
          ELSE IF maximizingPlayer
               THEN maximize(legalMoves, state, depth, alpha, beta, -Infinity)
               ELSE minimize(legalMoves, state, depth, alpha, beta, Infinity)

searchDepth(config) == IF config = "easy" THEN 3 ELSE 4

\* movesWithScores before the random offset of easy mode
movesWithScores(legalMoves, state, config) ==
  [i \in 1..Len(legalMoves) |->
     minimax(executeMove(legalMoves[i], state), searchDepth(config) - 1,
             -Infinity, Infinity, FALSE)]

\* candidateMoves[0] after the descending sort: candidates are the indices of
\* the candidate moves in legalMoves. In hard mode it is a candidate of the
\* highest score, the first of them in legalMoves when that score is a
\* checkmate score (the sort is stable; between equal sums of tenths the
\* rounding of the additions decides and is left open). In easy mode a random
\* offset in [-0.2, 0.2) is added to each score, so every candidate less than
\* 0.4 below the highest can come first.
firstCandidate(candidates, scores, config) ==
  LET best == CHOOSE i \in candidates : \A j \in candidates : scores[j] <= scores[i]
      highest == {i \in candidates : scores[i] = scores[best]}
  IN IF config = "easy" THEN {i \in candidates : scores[i] + 4 > scores[best]}
     ELSE IF scores[best] \in {CheckmateScore, -CheckmateScore}
     THEN {CHOOSE i \in highest : \A j \in highest : i <= j}
     ELSE highest

candidateIndices(legalMoves, candidates) ==
  {i \in 1..Len(legalMoves) : legalMoves[i] \in candidates}

\* the moves minimaxPromise can be resolved with
searchResult(legalMoves, state, config) ==
  LET first == firstCandidate(
                 candidateIndices(legalMoves,
                                  candidateMoves(elements(legalMoves), state, config)),
                 movesWithScores(legalMoves, state, config), config)
  IN {legalMoves[i] : i \in first}

MaxCalls == 2

\* the squares the player picks pieces from, and moves that no position of
\* the game offers
PlayerFrom == {Pos(6, 4), Pos(1, 4)}

WhitePawn(row, col) == Piece("pawn", "white", row, col, FALSE)

BadMoves ==
  { MkMove(Pos(0, 0), Pos(5, 5), WhitePawn(0, 0)),
    MkMove(Pos(6, 4), Pos(3, 4), WhitePawn(6, 4)),
    MkMove(Pos(6, 4), Pos(5, 4), Piece("queen", "white", 6, 4, FALSE)),
    MkMove(Pos(4, 4), Pos(3, 4), WhitePawn(4, 4)),
    MkMove(Pos(-1, 4), Pos(0, 4), WhitePawn(-1, 4)),
    [MkMove(Pos(7, 4), Pos(7, 6), Piece("king", "white", 7, 4, FALSE))
       EXCEPT !.isCastling = TRUE],
    [MkMove(Pos(6, 4), Pos(5, 4), WhitePawn(6, 4)) EXCEPT !.promotionType = "queen"],
    [MkMove(Pos(7, 6), Pos(5, 5), Piece("knight", "white", 7, 6, FALSE))
       EXCEPT !.isEnPassant = TRUE] }

handlePlayerMoveRejectsColor(move) ==
  At(gameState, move.from) = Null \/ At(gameState, move.from).color # gameState.currentTurn

\* if (!this.chessEngine.isValidMove(move, this.gameState)) return
handlePlayerMoveRejects(move) == ~isValidMove(move, gameState)

\* requestAIMove up to its await: the flag is set on the state, the
\* subscribers are notified, and generateMove has computed its move (any of
\* the candidate moves here: the search is too large to run on these boards)
requestAIMoveCalled(move, thinking) ==
  /\ gameState' = thinking
  /\ lastCall' = Call("handlePlayerMove", move, 2, TRUE, FALSE)
  /\ \E aiMove \in generateMoveAny(thinking, difficulty) :
       pending' = Append(pending, [aiMove |-> aiMove, state |-> thinking])

\* handlePlayerMove once the move is executed: the new state is handed to the
\* subscribers, and requestAIMove sets its flag on that same object before it
\* hands it out again
handlePlayerMoveExecuted(move, executed) ==
  IF executed.isCheckmate \/ executed.isStalemate
  THEN /\ gameState' = executed
       /\ lastCall' = Call("handlePlayerMove", move, 1, FALSE, FALSE)
       /\ snapshots' = {executed}
       /\ UNCHANGED pending
  ELSE /\ requestAIMoveCalled(move, [executed EXCEPT !.isAIThinking = "true"])
       /\ snapshots' = {executed, [executed EXCEPT !.isAIThinking = "true"]}

\* the part of handlePlayerMove that runs before the call returns its
\* promise: with an accepted move and the game not over it runs requestAIMove
\* up to its await
handlePlayerMove(move) ==
  /\ calls < MaxCalls
  /\ calls' = calls + 1
  /\ UNCHANGED <<line, free, difficulty, search>>
  /\ IF handlePlayerMoveRejects(move)
     THEN /\ lastCall' = Call("handlePlayerMove", move, 0, FALSE, FALSE)
          /\ UNCHANGED <<gameState, pending, inputAfter, snapshots>>
     ELSE /\ inputAfter' = executeMoveInput(move, gameState)
          /\ handlePlayerMoveExecuted(move, executeMove(move, gameState))

\* requestAIMove from its await on, for the oldest call in flight: the move is
\* executed on the state the controller holds now; generateMove's error and
\* executeMove's are caught, the flag cleared on the object held, and thrown
\* again
requestAIMoveResumed(aiMove, throws) ==
  /\ gameState' = IF throws THEN [gameState EXCEPT !.isAIThinking = "false"]
                  ELSE [executeMove(aiMove, gameState) EXCEPT !.isAIThinking = "false"]
  /\ snapshots' = IF throws THEN snapshots \cup {[gameState EXCEPT !.isAIThinking = "false"]}
                  ELSE {[executeMove(aiMove, gameState) EXCEPT !.isAIThinking = "false"]}
  /\ inputAfter' = IF throws THEN inputAfter ELSE executeMoveInput(aiMove, gameState)
  /\ lastCall' = Call("requestAIMove", aiMove, 1, FALSE, throws)

requestAIMove ==
  /\ pending # <<>>
  /\ requestAIMoveResumed(Head(pending).aiMove,
                          \/ Head(pending).aiMove = NoMove
                          \/ executeMoveThrows(Head(pending).aiMove, gameState))
  /\ pending' = Tail(pending)
  /\ UNCHANGED <<line, free, difficulty, calls, search>>

startNewGame(newDifficulty) ==
  /\ calls < MaxCalls
  /\ calls' = calls + 1
  /\ gameState' = initializeGame
  /\ difficulty' = newDifficulty
  /\ lastCall' = Call("startNewGame", NoMove, 1, FALSE, FALSE)
  /\ snapshots' = {initializeGame}
  /\ UNCHANGED <<line, free, inputAfter, pending, search>>

resignGame ==
  /\ calls < MaxCalls
  /\ calls' = calls + 1
  /\ gameState' = [gameState EXCEPT !.status = "resigned", !.winner = "black"]
  /\ lastCall' = Call("resignGame", NoMove, 1, FALSE, FALSE)
  /\ snapshots' = snapshots \cup {[gameState EXCEPT !.status = "resigned", !.winner = "black"]}
  /\ UNCHANGED <<line, free, inputAfter, difficulty, pending, search>>

\* getGameState returns the object the controller holds
getGameState ==
  /\ snapshots' = snapshots \cup {gameState}
  /\ UNCHANGED <<gameState, line, free, inputAfter, difficulty, pending, lastCall, calls,
                 search>>

PlayerMove ==
  \E move \in BadMoves \cup UNION {PlayerMoves(from, gameState) : from \in PlayerFrom} :
    handlePlayerMove(move)

NextController ==
  \/ PlayerMove
  \/ requestAIMove
  \/ \E newDifficulty \in {"easy", "hard"} : startNewGame(newDifficulty)
  \/ resignGame
  \/ getGameState

SpecController == Init /\ [][NextController]_vars

----------------------------------------------------------------------------
(* Hand-built states, as the engine's tests build them: an empty board,    *)
(* pieces placed on it, a side to move, no history                         *)

EmptyBoard == [r \in Rows |-> [c \in Cols |-> Null]]

RECURSIVE PlaceAll(_, _)
PlaceAll(board, pieces) ==
  IF pieces = <<>> THEN board
  ELSE PlaceAll(SetCell(board, Head(pieces).position, Head(pieces)), Tail(pieces))

BoardState(pieces, turn) ==
  [initializeGame EXCEPT !.board = PlaceAll(EmptyBoard, pieces), !.currentTurn = turn]

\* "should detect checkmate - back rank mate"
BackRankMate ==
  << Piece("king", "white", 7, 6, TRUE), Piece("pawn", "white", 6, 5, TRUE),
     Piece("pawn", "white", 6, 6, TRUE), Piece("pawn", "white", 6, 7, TRUE),
     Piece("rook", "black", 7, 0, TRUE), Piece("king", "black", 0, 4, FALSE) >>

\* "should detect stalemate"
CornerStalemate ==
  << Piece("king", "white", 7, 7, TRUE), Piece("queen", "black", 5, 6, TRUE),
     Piece("king", "black", 0, 0, FALSE) >>

\* "should filter out moves that would leave king in check"
PinnedRook ==
  << Piece("king", "white", 4, 4, TRUE), Piece("rook", "white", 5, 4, TRUE),
     Piece("rook", "black", 7, 4, TRUE) >>

\* white has no move and is not in check; its pinned knight attacks the
\* black king
PinnedKnightChecks ==
  << Piece("king", "white", 7, 0, TRUE), Piece("knight", "white", 7, 1, TRUE),
     Piece("king", "black", 5, 2, TRUE), Piece("rook", "black", 7, 7, TRUE),
     Piece("pawn", "black", 5, 1, TRUE) >>

\* the board of Property 28: king and one rook on their home squares, the
\* opposing king in the corner of its own back rank, an own knight between
\* king and rook (blockCol, -1: none), an opposing rook two rows in front of
\* the back rank (attackCol, -1: none)
CastlingBoard(kingHasMoved, rookHasMoved, blockCol, attackCol, color, rookCol) ==
  LET backRank == IF color = "white" THEN 7 ELSE 0
      opponentColor == Opposite(color)
      opponentKingRow == IF color = "white" THEN 0 ELSE 7
      attackRow == IF color = "white" THEN 5 ELSE 2
  IN << Piece("king", color, backRank, 4, kingHasMoved),
        Piece("rook", color, backRank, rookCol, rookHasMoved),
        Piece("king", opponentColor, opponentKingRow, 0, FALSE) >>
     \o (IF blockCol >= 0 THEN << Piece("knight", color, backRank, blockCol, FALSE) >>
         ELSE <<>>)
     \o (IF attackCol >= 0 THEN << Piece("rook", opponentColor, attackRow, attackCol, TRUE) >>
         ELSE <<>>)

CastlingBoards ==
  { CastlingBoard(flags[1], flags[2], blockCol, attackCol, color, rookCol) :
      flags \in {<<FALSE, FALSE>>, <<TRUE, FALSE>>, <<FALSE, TRUE>>},
      blockCol \in {-1, 3, 5},
      attackCol \in {-1, 2, 3, 4, 5, 6},
      color \in {"white", "black"},
      rookCol \in {0, 7} }

\* the same board with both rights to castle unused and an opposing pawn on
\* the row next to the back rank
PawnBoards ==
  { CastlingBoard(FALSE, FALSE, -1, -1, color, rookCol)
      \o << Piece("pawn", Opposite(color), IF color = "white" THEN 6 ELSE 1, pawnCol, TRUE) >> :
      color \in {"white", "black"},
      rookCol \in {0, 7},
      pawnCol \in {3, 4, 5, 6} }

BoardStates ==
  {initializeGame}
  \cup { BoardState(pieces, turn) :
           pieces \in {BackRankMate, CornerStalemate, PinnedRook, PinnedKnightChecks},
           turn \in {"white", "black"} }
  \cup { BoardState(pieces, pieces[1].color) : pieces \in CastlingBoards \cup PawnBoards }

InitBoards ==
  /\ gameState \in BoardStates
  /\ line = 0
  /\ free = 0
  /\ inputAfter = gameState
  /\ difficulty = "easy"
  /\ pending = <<>>
  /\ lastCall = NoCall
  /\ calls = 0
  /\ search = NoSearch
  /\ snapshots = {}

SpecBoards == InitBoards /\ [][Play]_vars

----------------------------------------------------------------------------
(* AIOpponent.generateMove: the search and the timer                       *)

\* the longest time a search takes, in the unit of maxThinkingTime
MaxTook == 2

\* config.maxThinkingTime
ThinkingTimes == {1}

\* black to move with a rook and the king against the king in the corner:
\* the rook gives checkmate on (7,0)
RookMate ==
  << Piece("king", "white", 7, 7, TRUE), Piece("king", "black", 5, 6, TRUE),
     Piece("rook", "black", 0, 0, TRUE) >>

SearchStates ==
  { [BoardState(RookMate, "black") EXCEPT !.moveCount = moveCount] : moveCount \in {9, 10} }

InitSearch ==
  /\ gameState \in SearchStates
  /\ difficulty \in {"easy", "hard"}
  /\ line = 0
  /\ free = 0
  /\ inputAfter = gameState
  /\ pending = <<>>
  /\ lastCall = NoCall
  /\ calls = 0
  /\ search = NoSearch
  /\ snapshots = {}

\* the synchronous part of generateMove for a list of legal moves that is not
\* empty: the executor of timeoutPromise sets the timer, the executor of
\* minimaxPromise runs the whole search, which takes the time took, and
\* resolves minimaxPromise; Promise.race returns a pending promise
generateMoveCalled(results) ==
  \E move \in results, took \in 0..MaxTook, maxThinkingTime \in ThinkingTimes :
    search' = Search(took, maxThinkingTime, move, NoMove, NoMove, "pending")

generateMove ==
  /\ search.by = "none"
  /\ ~generateMoveThrows(gameState)
  /\ generateMoveCalled(searchResult(getAllLegalMoves("black", gameState),
                                     gameState, difficulty))
  /\ UNCHANGED <<gameState, line, free, inputAfter, difficulty, pending, lastCall, calls,
                 snapshots>>

\* the reaction of Promise.race to its first settled promise, run as a
\* microtask once the synchronous part has returned: minimaxPromise is
\* fulfilled by then, timeoutPromise is not
raceSettled ==
  /\ search.by = "pending"
  /\ search' = [search EXCEPT !.resolved = search.minimaxPromise, !.by = "minimaxPromise"]
  /\ UNCHANGED <<gameState, line, free, inputAfter, difficulty, pending, lastCall, calls,
                 snapshots>>

\* the setTimeout callback: timers run after the synchronous part and its
\* microtasks, however long the search took. It resolves timeoutPromise with
\* a random legal move; a promise that is already resolved keeps its value
timerFired(legalMoves) ==
  \E randomMove \in legalMoves :
    search' = [search EXCEPT !.timeoutPromise = randomMove,
                             !.resolved = IF search.by = "pending" THEN randomMove
                                          ELSE search.resolved,
                             !.by = IF search.by = "pending" THEN "timeoutPromise"
                                    ELSE search.by]

setTimeoutCallback ==
  /\ search.by = "minimaxPromise"
  /\ search.timeoutPromise = NoMove
  /\ timerFired(elements(getAllLegalMoves("black", gameState)))
  /\ UNCHANGED <<gameState, line, free, inputAfter, difficulty, pending, lastCall, calls,
                 snapshots>>

NextSearch == generateMove \/ raceSettled \/ setTimeoutCallback

SpecSearch == InitSearch /\ [][NextSearch]_vars

----------------------------------------------------------------------------
(* Claims                                                                  *)

Kings(color, state) ==
  {rc \in Rows \X Cols : /\ state.board[rc[1]][rc[2]] # Null
                         /\ state.board[rc[1]][rc[2]].type = "king"
                         /\ state.board[rc[1]][rc[2]].color = color}

\* the colour that made the last move
Mover(state) == state.lastMove.piece.color

\* C1: after every executed move that isValidMove accepted, the mover's own
\* king is not attacked: isInCheck(mover colour, result) is false.
C1_SelfCheckExclusion ==
  gameState.moveCount > 0 => ~isInCheck(Mover(gameState), gameState)

\* C2: every state reached from initializeGame by accepted moves holds exactly
\* one white king and exactly one black king.
C2_OneKingEach ==
  /\ Cardinality(Kings("white", gameState)) = 1
  /\ Cardinality(Kings("black", gameState)) = 1

\* C3: every executeMove returns the opposite side to move, so the side to
\* move is white after an even number of executed moves and black after an
\* odd number.
C3_TurnAlternation ==
  [][ /\ gameState'.currentTurn # gameState.currentTurn
      /\ gameState'.currentTurn = Opposite(gameState.currentTurn)
      /\ gameState'.currentTurn =
           (IF gameState'.moveCount % 2 = 0 THEN "white" ELSE "black") ]_vars

C3_Witness ==
  /\ gameState.moveCount = 3
  /\ gameState.currentTurn = "black"
  /\ gameState.lastMove.piece.color = "white"

C5_MoveCountIsHistoryLength ==
  [][ LET old == gameState.moveHistory
          new == gameState'.moveHistory
          last == new[Len(new)]
      IN /\ gameState.moveCount = Len(old)
         /\ gameState'.moveCount = Len(new)
         /\ gameState'.moveCount = gameState.moveCount + 1
         /\ Len(new) = Len(old) + 1
         /\ SubSeq(new, 1, Len(old)) = old
         /\ last = gameState'.lastMove
         /\ last.piece = At(gameState, last.from)
         /\ At(gameState', last.from) = Null
         /\ At(gameState', last.to).color = last.piece.color ]_vars

C5_Witness ==
  /\ gameState.moveCount = 4
  /\ Len(gameState.moveHistory) = 4
  /\ gameState.moveHistory[4] = gameState.lastMove

\* C6: the stored flags of a state returned by executeMove: checkmate and
\* stalemate are never both set, checkmate comes with check, stalemate with no
\* check, and one of the two is set exactly when the side to move has no legal
\* move.
C6_StatusFlags ==
  gameState.moveCount > 0 =>
    LET noMove == getAllLegalMoves(gameState.currentTurn, gameState) = <<>>
    IN /\ ~(gameState.isCheckmate /\ gameState.isStalemate)
       /\ gameState.isCheckmate => gameState.isCheck
       /\ gameState.isStalemate => ~gameState.isCheck
       /\ (gameState.isCheckmate \/ gameState.isStalemate) <=> noMove

C6_Witness ==
  /\ gameState.moveCount > 0
  /\ gameState.isCheckmate
  /\ gameState.isCheck
  /\ getAllLegalMoves(gameState.currentTurn, gameState) = <<>>

SideToMove == gameState.currentTurn

NoLegalMove == getAllLegalMoves(SideToMove, gameState) = <<>>

\* C7 as stated: on every state, for every colour c, isCheckmate(c) implies
\* isInCheck(c), isStalemate implies the side to move is not in check, each of
\* the two implies that the side to move has no legal move, and isCheckmate(c)
\* and isStalemate are never both true.
C7_AnyColour ==
  \A c \in {"white", "black"} :
    /\ isCheckmate(c, gameState) => isInCheck(c, gameState)
    /\ isStalemate(gameState) => ~isInCheck(SideToMove, gameState)
    /\ isCheckmate(c, gameState) => NoLegalMove
    /\ isStalemate(gameState) => NoLegalMove
    /\ ~(isCheckmate(c, gameState) /\ isStalemate(gameState))

\* the same for the colour of the side to move alone
ConsistentForSideToMove ==
  /\ isCheckmate(SideToMove, gameState) => isInCheck(SideToMove, gameState)
  /\ isStalemate(gameState) => ~isInCheck(SideToMove, gameState)
  /\ isCheckmate(SideToMove, gameState) => NoLegalMove
  /\ isStalemate(gameState) => NoLegalMove
  /\ ~(isCheckmate(SideToMove, gameState) /\ isStalemate(gameState))

\* the side that is not to move is reported checkmated while it has a move
\* that ends the check, were it its turn, and the side to move is stalemated
CheckmatedWithAnEscape ==
  LET c == Opposite(SideToMove)
      itsTurn == [gameState EXCEPT !.currentTurn = c]
  IN /\ isCheckmate(c, gameState)
     /\ isStalemate(gameState)
     /\ getAllLegalMoves(c, itsTurn) # <<>>

\* the moves submitted to the gate: from every square of the board, to every
\* square the movement rule of the piece on from offers, to the squares two
\* columns to either side, to from itself and to two fixed squares; the piece
\* declared as the one on from, or with another type, or with the other
\* colour (a white pawn when from is empty)
Squares == {Pos(r, c) : r \in Rows, c \in Cols}

Targets(from) ==
  LET piece == At(gameState, from)
      pseudo == IF piece = Null THEN <<>> ELSE getPseudoLegalMoves(piece, gameState)
  IN {pseudo[i] : i \in 1..Len(pseudo)}
     \cup {Pos(from.row, c) : c \in {from.col - 2, from.col + 2} \cap Cols}
     \cup {from, Pos(5, 5), Pos(2, 3)}

Declared(from) ==
  LET piece == At(gameState, from)
  IN IF piece = Null THEN {Piece("pawn", "white", from.row, from.col, FALSE)}
     ELSE {piece,
           [piece EXCEPT !.type = IF @ = "queen" THEN "rook" ELSE "queen"],
           [piece EXCEPT !.color = Opposite(@)]}

LegalPairs ==
  LET legal == getAllLegalMoves(SideToMove, gameState)
  IN {<<legal[i].from, legal[i].to>> : i \in 1..Len(legal)}

\* C8: isValidMove rejects every move whose (from, to) is not in
\* getAllLegalMoves of the side to move, whatever flags it carries, and accepts
\* every flagless move with the from, to and piece type and colour of a
\* member.
C8_ExactGate ==
  LET pairs == LegalPairs
  IN \A from \in Squares :
       \A piece \in Declared(from) :
         \A to \in Targets(from) :
           LET move == MkMove(from, to, piece)
               flagged == [move EXCEPT !.isCastling = TRUE, !.isEnPassant = TRUE,
                                       !.promotionType = "queen"]
               matches == /\ piece.type = At(gameState, from).type
                          /\ piece.color = At(gameState, from).color
           IN /\ <<from, to>> \notin pairs =>
                   ~isValidMove(move, gameState) /\ ~isValidMove(flagged, gameState)
              /\ (<<from, to>> \in pairs /\ matches) => isValidMove(move, gameState)

\* a pinned piece: a destination its movement rule offers is rejected, another
\* one is accepted
C8_Witness ==
  \E from \in Squares :
    LET piece == At(gameState, from)
        pseudo == getPseudoLegalMoves(piece, gameState)
    IN /\ piece # Null
       /\ piece.color = SideToMove
       /\ \E i, j \in 1..Len(pseudo) :
            /\ ~isValidMove(MkMove(from, pseudo[i], piece), gameState)
            /\ isValidMove(MkMove(from, pseudo[j], piece), gameState)

\* the castling of the king of the side to move towards the rook in column
\* rookCol, in the claim's terms
CastlingKing == At(gameState, findKing(SideToMove, gameState))

CastlingDestination(rookCol) ==
  LET king == CastlingKing
  IN Pos(king.position.row, king.position.col + (IF rookCol = 7 THEN 2 ELSE -2))

CastlingOffered(rookCol) ==
  Includes(getValidMoves(CastlingKing.position, gameState), CastlingDestination(rookCol))

CastlingConditions(rookCol) ==
  LET king == CastlingKing
      backRank == IF king.color = "white" THEN 7 ELSE 0
      rook == gameState.board[backRank][rookCol]
      transit == Pos(king.position.row, king.position.col + (IF rookCol = 7 THEN 1 ELSE -1))
  IN /\ ~king.hasMoved
     /\ rook # Null /\ rook.type = "rook" /\ rook.color = king.color /\ ~rook.hasMoved
     /\ \A c \in Cols :
          (\/ king.position.col < c /\ c < rookCol
           \/ rookCol < c /\ c < king.position.col) =>
            gameState.board[king.position.row][c] = Null
     /\ ~isPositionUnderAttack(king.position, king.color, gameState)
     /\ ~isPositionUnderAttack(transit, king.color, gameState)

\* the king standing on the castling destination, the rest of the board as it
\* is
KingOnDestination(rookCol) ==
  LET king == CastlingKing
      to == CastlingDestination(rookCol)
  IN [gameState EXCEPT
        !.board = SetCell(SetCell(@, king.position, Null), to,
                          [king EXCEPT !.position = to])]

C9_RejectionPreservesState ==
  [][(/\ calls' = calls + 1
      /\ lastCall'.op = "handlePlayerMove"
      /\ ~isValidMove(lastCall'.move, gameState))
     => /\ gameState' = gameState
        /\ difficulty' = difficulty
        /\ pending' = pending
        /\ lastCall'.notified = 0
        /\ ~lastCall'.aiRequested
        /\ ~lastCall'.threw]_vars

\* a rejected move, after an accepted move and the AI's reply
C9_Witness ==
  /\ lastCall.op = "handlePlayerMove"
  /\ lastCall.notified = 0
  /\ ~isValidMove(lastCall.move, gameState)
  /\ calls = 2
  /\ gameState.moveCount = 2

\* the pawns of the side to move
PawnsToMove ==
  {from \in Squares : /\ At(gameState, from) # Null
                      /\ At(gameState, from).type = "pawn"
                      /\ At(gameState, from).color = SideToMove}

\* the square diagonally ahead of the pawn on from, in the column side
EnPassantDestination(from, side) ==
  Pos(from.row + (IF SideToMove = "white" THEN -1 ELSE 1), from.col + side)

\* state.lastMove was a two-row advance of an opposing pawn that landed beside
\* the pawn on from, in the column side
LandedBeside(from, side) ==
  LET lastMove == gameState.lastMove
  IN /\ lastMove # NoMove
     /\ lastMove.piece.type = "pawn"
     /\ lastMove.piece.color = Opposite(SideToMove)
     /\ Abs(lastMove.to.row - lastMove.from.row) = 2
     /\ lastMove.to = Pos(from.row, from.col + side)

\* C11: for a pawn of the side to move, the empty square diagonally ahead of
\* it is in getValidMoves exactly when state.lastMove was a two-row advance of
\* an opposing pawn that landed on the pawn's row in the column of that
\* square.
C11_EnPassantGating ==
  \A from \in PawnsToMove : \A side \in {-1, 1} :
    (/\ isPositionOnBoard(EnPassantDestination(from, side))
     /\ At(gameState, EnPassantDestination(from, side)) = Null)
    => (Includes(getValidMoves(from, gameState), EnPassantDestination(from, side))
          <=> LandedBeside(from, side))

\* the pawn that has just advanced two rows gives check, and the capture of
\* it en passant is not offered
CheckingPawnNotCapturable ==
  /\ gameState.moveCount = 11
  /\ line = 6
  /\ isInCheck("black", gameState)
  /\ LandedBeside(Pos(4, 5), -1)
  /\ ~Includes(getValidMoves(Pos(4, 5), gameState), Pos(5, 4))

\* C12: after every executed castling move (a king's move of two columns
\* along its row that isValidMove accepted) the corner rook stands on the
\* square next to the king's destination (column 5 kingside, column 3
\* queenside), its corner is empty, and king and rook are marked hasMoved.
C12_CastlingExecution ==
  LET move == gameState.lastMove
      row == move.to.row
      kingside == move.to.col > move.from.col
      rook == gameState.board[row][IF kingside THEN 5 ELSE 3]
      king == At(gameState, move.to)
  IN (/\ move # NoMove
      /\ move.piece.type = "king"
      /\ move.from.row = move.to.row
      /\ Abs(move.to.col - move.from.col) = 2)
     => /\ rook # Null /\ rook.type = "rook" /\ rook.color = move.piece.color
        /\ rook.hasMoved
        /\ gameState.board[row][IF kingside THEN 7 ELSE 0] = Null
        /\ king # Null /\ king.type = "king" /\ king.hasMoved

\* C13: every executed en passant capture (a pawn's diagonal move onto an
\* empty square that isValidMove accepted) removes the opposing pawn on
\* (move.from.row, move.to.col) from the board, appends it to capturedPieces
\* and puts the capturing pawn on move.to.
C13_EnPassantExecution ==
  [][LET move == gameState'.lastMove
         victim == Pos(move.from.row, move.to.col)
     IN (/\ gameState'.moveCount = gameState.moveCount + 1
         /\ move.piece.type = "pawn"
         /\ move.from.col # move.to.col
         /\ At(gameState, move.to) = Null)
        => /\ At(gameState', victim) = Null
           /\ gameState'.capturedPieces
                = Append(gameState.capturedPieces, At(gameState, victim))
           /\ At(gameState', move.to) # Null
           /\ At(gameState', move.to).color = move.piece.color
           /\ move.promotionType = "none" => At(gameState', move.to).type = "pawn"]_vars

\* C14: in every state reached from initializeGame by accepted moves no white
\* pawn stands on row 0 and no black pawn stands on row 7.
C14_NoPawnOnLastRow ==
  \A col \in Cols :
    /\ ~(/\ gameState.board[0][col] # Null
         /\ gameState.board[0][col].type = "pawn"
         /\ gameState.board[0][col].color = "white")
    /\ ~(/\ gameState.board[7][col] # Null
         /\ gameState.board[7][col].type = "pawn"
         /\ gameState.board[7][col].color = "black")

MovesOf(type, moves) == Len(SelectSeq(moves, LAMBDA m : m.piece.type = type))

\* C15: getAllLegalMoves('white') of the initial state has exactly 20 moves,
\* 16 of pawns and 4 of knights, and the state after each of them gives black
\* exactly 20 legal moves.
C15_TwentyMoves ==
  /\ gameState.moveCount = 0 =>
       LET moves == getAllLegalMoves("white", gameState)
       IN /\ Len(moves) = 20
          /\ MovesOf("pawn", moves) = 16
          /\ MovesOf("knight", moves) = 4
          /\ \A i \in 1..Len(moves) :
               Len(getAllLegalMoves("black", executeMove(moves[i], gameState))) = 20
  /\ gameState.moveCount = 1 => Len(getAllLegalMoves("black", gameState)) = 20

\* a white move has been executed on the initial state, and black has 20
\* moves
C15_Witness ==
  /\ gameState.moveCount = 1
  /\ gameState.currentTurn = "black"
  /\ Len(getAllLegalMoves("black", gameState)) = 20
  /\ MovesOf("pawn", getAllLegalMoves("black", gameState)) = 16

\* C16: in every state in which the side to move has a legal move,
\* generateMove, in easy and in hard mode, does not throw and resolves with a
\* move that isValidMove accepts in that state.
C16_AIMoveIsLegal ==
  getAllLegalMoves(SideToMove, gameState) # <<>> =>
    \A config \in {"easy", "hard"} :
      /\ ~generateMoveThrows(gameState)
      /\ \A move \in generateMoveAny(gameState, config) : isValidMove(move, gameState)

\* the same with black to move
AIMoveIsLegalForBlack ==
  (SideToMove = "black" /\ getAllLegalMoves(SideToMove, gameState) # <<>>) =>
    \A config \in {"easy", "hard"} :
      /\ ~generateMoveThrows(gameState)
      /\ \A move \in generateMoveAny(gameState, config) : isValidMove(move, gameState)

GivesCheckmate(move) == move # NoMove /\ wouldResultInCheckmate(move, gameState)

MateAvailable ==
  \E move \in elements(getAllLegalMoves("black", gameState)) : GivesCheckmate(move)

OtherAvailable ==
  \E move \in elements(getAllLegalMoves("black", gameState)) : ~GivesCheckmate(move)

\* C17: when a legal move gives checkmate and another does not, generateMove
\* in easy mode, and in hard mode while moveCount < 10, resolves neither
\* minimaxPromise nor the promise it returns with a move that gives checkmate.
C17_CheckmateAvoided ==
  (/\ search.by # "none"
   /\ difficulty = "easy" \/ gameState.moveCount < 10
   /\ GivesCheckmate(search.minimaxPromise) \/ GivesCheckmate(search.resolved)) =>
    ~(MateAvailable /\ OtherAvailable)

C17_Witness ==
  /\ search.by = "minimaxPromise"
  /\ difficulty = "hard" /\ gameState.moveCount = 9
  /\ GivesCheckmate(search.timeoutPromise)
  /\ ~GivesCheckmate(search.resolved)
  /\ OtherAvailable

\* C18: in hard mode with moveCount >= 10, when a legal move gives checkmate,
\* generateMove resolves with a move that gives checkmate.
C18_HardPlaysCheckmate ==
  (/\ search.by \in {"minimaxPromise", "timeoutPromise"}
   /\ difficulty = "hard" /\ gameState.moveCount >= 10
   /\ ~GivesCheckmate(search.resolved)) =>
    ~MateAvailable

\* C19: when the search took longer than maxThinkingTime, the promise returned
\* by generateMove is resolved by the timer, with a move of the legal moves.
C19_TimeoutFallback ==
  (search.took > search.maxThinkingTime /\ search.by # "none") =>
    /\ search.by \in {"pending", "timeoutPromise"}
    /\ search.by = "timeoutPromise" =>
         search.resolved \in elements(getAllLegalMoves("black", gameState))

\* the promise returned by generateMove is only ever resolved with the value
\* of minimaxPromise
ResolvedBySearch ==
  search.by \notin {"none", "pending"} =>
    search.by = "minimaxPromise" /\ search.resolved = search.minimaxPromise

\* the squares holding a piece of the side to move
PiecesToMove ==
  {from \in Squares : At(gameState, from) # Null /\ At(gameState, from).color = SideToMove}

\* C20: every destination getValidMoves returns for a piece of the side to
\* move is on the board, is not the square the piece stands on, and holds no
\* piece of the mover's colour.
C20_LegalityClosure ==
  \A from \in PiecesToMove :
    \A to \in elements(getValidMoves(from, gameState)) :
      /\ to.row \in 0..7 /\ to.col \in 0..7
      /\ to # from
      /\ gameState.board[to.row][to.col] = Null
           \/ gameState.board[to.row][to.col].color # SideToMove

\* a rook of the side to move that has a move and stands next to a piece of
\* its own colour, in a game under way
C20_Witness ==
  /\ gameState.moveCount > 0
  /\ \E from \in PiecesToMove :
       /\ At(gameState, from).type = "rook"
       /\ getValidMoves(from, gameState) # <<>>
       /\ \E col \in {from.col - 1, from.col + 1} \cap Cols :
            /\ gameState.board[from.row][col] # Null
            /\ gameState.board[from.row][col].color = SideToMove

\* C21: on a board without a king of a colour, isInCheck and isCheckmate
\* return false for that colour.
C21_MissingKing ==
  \A color \in {"white", "black"} :
    Kings(color, gameState) = {} =>
      /\ isInCheck(color, gameState) = FALSE
      /\ isCheckmate(color, gameState) = FALSE

\* the side to move has no king and has pieces, and a move has been executed
C21_Witness ==
  /\ Kings(SideToMove, gameState) = {}
  /\ PiecesToMove # {}
  /\ gameState.moveCount > 0

\* the value of a position by exhaustive search to the given depth: the best
\* of the values of all legal moves for the side to move, no move left out
RECURSIVE ExhaustiveValue(_, _, _)
ExhaustiveValue(state, depth, maximizingPlayer) ==
  IF depth = 0 \/ state.isCheckmate \/ state.isStalemate
  THEN IF state.isCheckmate
       THEN (IF maximizingPlayer THEN -CheckmateScore ELSE CheckmateScore)
       ELSE IF state.isStalemate THEN 0 ELSE evaluatePosition(state)
  ELSE LET color == IF maximizingPlayer THEN "black" ELSE "white"
           legalMoves == getAllLegalMoves(color, state)
           values == {ExhaustiveValue(executeMove(legalMoves[i], state), depth - 1,
                                      ~maximizingPlayer) : i \in 1..Len(legalMoves)}
       IN IF legalMoves = <<>>
          THEN IF isInCheck(color, state)
               THEN (IF maximizingPlayer THEN -CheckmateScore ELSE CheckmateScore)
               ELSE 0
          ELSE IF maximizingPlayer
               THEN CHOOSE v \in values : \A w \in values : w <= v
               ELSE CHOOSE v \in values : \A w \in values : v <= w

SameValue(state, depth, maximizingPlayer) ==
  minimax(state, depth, -Infinity, Infinity, maximizingPlayer)
    = ExhaustiveValue(state, depth, maximizingPlayer)

\* C22: called with the full window, minimax returns the value of the
\* exhaustive search of the same depth: for the position of the search with
\* black to move, and for the position after each legal move, with white to
\* move, at the depth generateMove scores it.
C22_AlphaBetaSound ==
  (search.by = "pending" /\ search.took = 0) =>
    /\ SameValue(gameState, 2, TRUE)
    /\ \A move \in elements(getAllLegalMoves("black", gameState)) :
         SameValue(executeMove(move, gameState), searchDepth(difficulty) - 1, FALSE)

\* a search of depth 3 has scored the moves, one of them below a checkmate
C22_Witness ==
  /\ search.by = "pending" /\ search.took = 0
  /\ difficulty = "hard"
  /\ \E move \in elements(getAllLegalMoves("black", gameState)) :
       minimax(executeMove(move, gameState), 3, -Infinity, Infinity, FALSE) < CheckmateScore

\* the step in which requestAIMove resumes after its await and the promise of
\* the oldest handlePlayerMove call in flight is settled
AIMoveResumes == pending # <<>> /\ pending' = Tail(pending) /\ lastCall'.op = "requestAIMove"

\* the step in which handlePlayerMove is called with a move it accepts
PlayerMoveAccepted ==
  /\ calls' = calls + 1
  /\ lastCall'.op = "handlePlayerMove"
  /\ isValidMove(lastCall'.move, gameState)

GameOverAfter(move) ==
  executeMove(move, gameState).isCheckmate \/ executeMove(move, gameState).isStalemate

\* C23: an accepted player move that ends the game is the only ply executed
\* and no AI move is requested; otherwise an AI move is requested, and when
\* the call resolves one AI ply has followed: white is to move and moveCount
\* is two more than before the player's move.
C23_TurnProtocol ==
  [][/\ PlayerMoveAccepted =>
          IF GameOverAfter(lastCall'.move)
          THEN /\ ~lastCall'.aiRequested
               /\ pending' = pending
               /\ gameState'.moveCount = gameState.moveCount + 1
          ELSE /\ lastCall'.aiRequested
               /\ Len(pending') = Len(pending) + 1
     /\ AIMoveResumes =>
          /\ ~lastCall'.threw
          /\ gameState'.currentTurn = "white"
          /\ gameState'.moveCount = Head(pending).state.moveCount + 1]_vars

\* C24: from a state with status 'resigned', every step other than
\* startNewGame leaves status 'resigned', winner 'black', and the board and
\* moveCount as they are.
C24_ResignationEndsGame ==
  [][(gameState.status = "resigned" /\ lastCall'.op # "startNewGame") =>
       /\ gameState'.status = "resigned"
       /\ gameState'.winner = "black"
       /\ gameState'.board = gameState.board
       /\ gameState'.moveCount = gameState.moveCount]_vars

\* C25: the GameState object the controller holds has the value it had each
\* time it was returned by getGameState or passed to a subscriber.
C25_SnapshotsNotMutated == \A snapshot \in snapshots : snapshot = gameState

\* C26: the AI move that requestAIMove executes is executed on the state it
\* was generated from.
C26_NoStaleAIMove ==
  [][(AIMoveResumes /\ ~lastCall'.threw) => Head(pending).state = gameState]_vars

\* the state with a pawn of the colour standing on the position
Occupied(position, color) ==
  [gameState EXCEPT !.board = SetCell(gameState.board, position,
                                      Piece("pawn", color, position.row, position.col, TRUE))]

\* the squares diagonally ahead of a pawn
DiagonallyAhead(pawn) ==
  {Pos(pawn.position.row + (IF pawn.color = "white" THEN -1 ELSE 1), col) :
     col \in {pawn.position.col - 1, pawn.position.col + 1}} \cap Squares

OpposingPawns(color) ==
  {At(gameState, from) : from \in {sq \in Squares : /\ At(gameState, sq) # Null
                                                   /\ At(gameState, sq).type = "pawn"
                                                   /\ At(gameState, sq).color = Opposite(color)}}

\* C27: for every empty square and defending colour, isPositionUnderAttack
\* gives the same answer with the square empty and with a piece of that colour
\* on it, and the squares an opposing pawn is found to attack are the two
\* diagonally ahead of it.
C27_AttackIgnoresOccupancy ==
  \A position \in Squares, color \in {"white", "black"} :
    At(gameState, position) = Null =>
      /\ isPositionUnderAttack(position, color, gameState)
           = isPositionUnderAttack(position, color, Occupied(position, color))
      /\ \A pawn \in OpposingPawns(color) :
           Includes(getPseudoLegalMovesForAttack(pawn, gameState), position)
             <=> position \in DiagonallyAhead(pawn)

\* the move is a two-row advance of a pawn that lands on the position
TwoRowAdvanceTo(move, position) ==
  /\ move.piece.type = "pawn"
  /\ Abs(move.to.row - move.from.row) = 2
  /\ move.to = position

\* getValidMoves offers the pawn on from the capture en passant of the pawn
\* beside it in the column side: the diagonal step onto the empty square
EnPassantOffered(from, side) ==
  /\ isPositionOnBoard(EnPassantDestination(from, side))
  /\ At(gameState, EnPassantDestination(from, side)) = Null
  /\ Includes(getValidMoves(from, gameState), EnPassantDestination(from, side))

\* C28: when getValidMoves offers an en passant capture, the last move
\* executed is the two-row advance of the pawn to be captured.
C28_EnPassantOnePly ==
  \A from \in PawnsToMove, side \in {-1, 1} :
    EnPassantOffered(from, side) =>
      /\ gameState.moveHistory # <<>>
      /\ TwoRowAdvanceTo(gameState.moveHistory[Len(gameState.moveHistory)],
                         Pos(from.row, from.col + side))

\* two plies after a two-row advance that landed beside a pawn, that pawn is
\* to move, the advanced pawn is still beside it, and the capture is not offered
C28_Witness ==
  \E from \in PawnsToMove, side \in {-1, 1} :
    /\ Len(gameState.moveHistory) >= 3
    /\ TwoRowAdvanceTo(gameState.moveHistory[Len(gameState.moveHistory) - 2],
                       Pos(from.row, from.col + side))
    /\ gameState.moveHistory[Len(gameState.moveHistory) - 1].to # from
    /\ from.row = (IF SideToMove = "white" THEN 3 ELSE 4)
    /\ At(gameState, Pos(from.row, from.col + side)).type = "pawn"
    /\ At(gameState, Pos(from.row, from.col + side)).color = Opposite(SideToMove)
    /\ ~EnPassantOffered(from, side)

\* C29: every piece on the board has the position of the cell that holds it.
C29_PositionField ==
  \A position \in Squares :
    At(gameState, position) # Null => At(gameState, position).position = position

\* a castling move has relocated the rook, with a capture en passant or a
\* promotion or a castling of the other side earlier in the game
C29_Witness ==
  /\ gameState.lastMove # NoMove
  /\ gameState.lastMove.isCastling
  /\ At(gameState, Pos(gameState.lastMove.to.row,
                       IF gameState.lastMove.to.col = 6 THEN 5 ELSE 3)).type = "rook"
  /\ \E i \in 1..Len(gameState.moveHistory) - 1 :
       \/ gameState.moveHistory[i].isCastling
       \/ gameState.moveHistory[i].isEnPassant
       \/ gameState.moveHistory[i].promotionType # "none"

PiecesOnBoard(state, colors) ==
  Cardinality({position \in Squares : /\ At(state, position) # Null
                                      /\ At(state, position).color \in colors})

PieceTotal(state) ==
  PiecesOnBoard(state, {"white", "black"}) + Len(state.capturedPieces)

\* C30: before and after every executed move the pieces on the board and the
\* captured pieces are 32 together, and the move appends a piece to
\* capturedPieces exactly when a piece of the side that did not move has left
\* the board.
C30_PieceConservation ==
  [][/\ PieceTotal(gameState) = 32
     /\ PieceTotal(gameState') = 32
     /\ Len(gameState'.capturedPieces) \in
          {Len(gameState.capturedPieces), Len(gameState.capturedPieces) + 1}
     /\ Len(gameState'.capturedPieces) = Len(gameState.capturedPieces) + 1
          <=> PiecesOnBoard(gameState', {gameState'.currentTurn})
                < PiecesOnBoard(gameState, {gameState'.currentTurn})]_vars

\* a capture en passant has been executed and recorded: the captured pawn
\* did not stand on the destination of the move
C30_Witness ==
  /\ gameState.lastMove # NoMove
  /\ gameState.lastMove.isEnPassant
  /\ gameState.lastMove.capturedPiece # Null
  /\ gameState.lastMove.capturedPiece.position # gameState.lastMove.to
  /\ Len(gameState.capturedPieces) >= 1
  /\ gameState.capturedPieces[Len(gameState.capturedPieces)] = gameState.lastMove.capturedPiece

====
